---- MODULE Spec2Model ----
(***************************************************************************)
(* Model of hashcow's CowHashMap (src/src/lib.rs): a hash map whose keys   *)
(* and values are std::borrow::Cow, i.e. either Borrowed (a reference to   *)
(* data owned elsewhere) or Owned (a private copy).                        *)
(*                                                                         *)
(* The world is: the externally owned value data `ext`, one map `hm`       *)
(* created by new()/with_capacity(), and at most one live map `snap`       *)
(* obtained from hm.borrow_fields(), which borrows from hm.  `op` records  *)
(* the last call, its arguments and what it returned.                      *)
(***************************************************************************)
EXTENDS Integers, FiniteSets, TLC

\* ---- bounds of the model ------------------------------------------------
NumVals == 2      \* value contents are 1..NumVals
NumRefs == 1      \* externally owned value data are 1..NumRefs
MaxCap == 2        \* largest capacity asked of, or reported by, the entry store

Keys == {"key1", "key2"}     \* key contents (the doctests' keys)
Vals == 1..NumVals
Refs == 1..NumRefs
MapIds == {"hm", "snap"}

VARIABLES ext, hm, snap, op
vars == <<ext, hm, snap, op>>

\* The three pieces of memory an operation can touch.
World == [ext |-> ext, hm |-> hm, snap |-> snap]

\* ---- Option --------------------------------------------------------------
None == [some |-> FALSE, val |-> 0]
Some(v) == [some |-> TRUE, val |-> v]

\* ---- places: what a reference points at -----------------------------------
\* kind "ext": the external datum d; kind "hm"/"snap": the Owned payload of
\* the entry with key content k in that map.
NoRef == [kind |-> "none", d |-> 0, k |-> "none"]
ExtRef(d) == [kind |-> "ext", d |-> d, k |-> "none"]
SlotRef(mid, k) == [kind |-> mid, d |-> 0, k |-> k]

\* ---- Cow<'a, V> and Cow<'a, K> ----------------------------------------------
Borrowed(r) == [form |-> "Borrowed", ref |-> r, val |-> 0]
Owned(v) == [form |-> "Owned", ref |-> NoRef, val |-> v]
BorrowedKey(k) == [form |-> "Borrowed", k |-> k]
OwnedKey(k) == [form |-> "Owned", k |-> k]

\* KeyEq with the bug of a degenerate comparison under which every key matches.
KeyEqAny(a, b) == TRUE

\* KeyEq with the bug of comparing the Cow variants as well as the contents.
KeyEqForm(a, b) == a.k = b.k /\ a.form = b.form

\* Cow's Eq/Hash go through Deref: two keys are equal iff their contents are.
KeyEq(a, b) == a.k = b.k

\* ---- the entry store (hashbrown::HashMap) -------------------------------------
\* inner: the entries.  The store's growth strategy is not part of this program;
\* of its capacity the model keeps what the calls made so far guarantee:
\* alloc = FALSE is the store of new(), whose capacity is 0; otherwise the
\* capacity is some number >= cap.
NoMap == [live |-> FALSE, inner |-> {}, cap |-> 0, alloc |-> FALSE]
Max(a, b) == IF a >= b THEN a ELSE b
Find(inner, key) == {e \in inner : KeyEq(e.key, key)}
HashMapGet(inner, k) == Find(inner, BorrowedKey(k))

\* HashMapInsert with the bug of storing the new key over an equal stored key.
HashMapInsertNewKey(m, key, value) ==
    LET found == Find(m.inner, key) IN
    IF found # {}
    THEN [map |-> [m EXCEPT !.inner = (m.inner \ found) \cup {[key |-> key, val |-> value]}],
          old |-> {(CHOOSE e \in found : TRUE).val}]
    ELSE [map |-> [m EXCEPT !.inner = m.inner \cup {[key |-> key, val |-> value]},
                            !.cap = Max(m.cap, Cardinality(m.inner) + 1),
                            !.alloc = TRUE],
          old |-> {}]

\* HashMapInsert with the bug of keeping the value already stored under an equal
\* key (an insert-if-absent).
HashMapInsertKeep(m, key, value) ==
    LET found == Find(m.inner, key) IN
    IF found # {}
    THEN [map |-> m, old |-> {(CHOOSE e \in found : TRUE).val}]
    ELSE [map |-> [m EXCEPT !.inner = m.inner \cup {[key |-> key, val |-> value]},
                            !.cap = Max(m.cap, Cardinality(m.inner) + 1),
                            !.alloc = TRUE],
          old |-> {}]

\* HashMap::insert: an equal key keeps the stored key and has its value replaced,
\* the old value is returned; otherwise a new entry is added, for which the
\* store has room afterwards.
HashMapInsert(m, key, value) ==
    LET found == Find(m.inner, key) IN
    IF found # {}
    THEN LET e == CHOOSE e \in found : TRUE IN
         [map |-> [m EXCEPT !.inner = (m.inner \ found) \cup {[key |-> e.key, val |-> value]}],
          old |-> {e.val}]
    ELSE [map |-> [m EXCEPT !.inner = m.inner \cup {[key |-> key, val |-> value]},
                            !.cap = Max(m.cap, Cardinality(m.inner) + 1),
                            !.alloc = TRUE],
          old |-> {}]

\* Reading through a reference.
ReadPlace(w, r) ==
    IF r.kind = "ext" THEN w.ext[r.d]
    ELSE LET e == CHOOSE e \in w[r.kind].inner : e.key.k = r.k IN e.val.val

\* Cow::as_ref / Deref: either state reads uniformly.
AsRef(w, c) == IF c.form = "Owned" THEN c.val ELSE ReadPlace(w, c.ref)

\* Cow::into_owned: the payload itself when Owned, a clone of the referent when
\* Borrowed.
IntoOwned(w, c) == IF c.form = "Owned" THEN c.val ELSE ReadPlace(w, c.ref)

\* ---- what a call reports ------------------------------------------------------
\* name/map/key/val: the call and its arguments (val: the content of the value
\* argument); ret: the returned content; form: the returned Form; ref: the place
\* a returned &mut points at; pform: the form of the entry at key before the call;
\* copies: deep copies of value data the call made; num, keyset: returned
\* integer / key sequence (as a set).
NoOp == [name |-> "init", map |-> "none", key |-> "none", val |-> 0, ret |-> None,
         form |-> "None", ref |-> NoRef, pform |-> "None", copies |-> 0,
         num |-> 0, keyset |-> {}]

FormOf(found) == IF found = {} THEN "None" ELSE (CHOOSE e \in found : TRUE).val.form

Call(name, mid, k, w) ==
    [NoOp EXCEPT !.name = name, !.map = mid, !.key = k,
                 !.pform = FormOf(HashMapGet(w[mid].inner, k))]

\* ---- CowHashMap ------------------------------------------------------------------
\* new()
new == [live |-> TRUE, inner |-> {}, cap |-> 0, alloc |-> FALSE]

\* with_capacity with the bug of ignoring its argument (HashMap::new()).
WithCapacityIgnored(capacity) == [live |-> TRUE, inner |-> {}, cap |-> 0, alloc |-> FALSE]

\* with_capacity(capacity)
with_capacity(capacity) == [live |-> TRUE, inner |-> {}, cap |-> capacity, alloc |-> TRUE]

\* Insert with the bug of returning the previous value only when it was Owned
\* (a Borrowed previous value is dropped instead of cloned).
InsertOwnedOnly(name, w, mid, key, value) ==
    LET r == HashMapInsert(w[mid], key, value)
        old == IF r.old = {} \/ (CHOOSE x \in r.old : TRUE).form = "Borrowed" THEN None
               ELSE Some(IntoOwned(w, CHOOSE x \in r.old : TRUE))
    IN  [w |-> [w EXCEPT ![mid] = r.map],
         out |-> [Call(name, mid, key.k, w) EXCEPT !.val = AsRef(w, value), !.ret = old]]

\* The shared body of the four inserts:
\*   self.inner.insert(key, value).map(|x| x.into_owned())
Insert(name, w, mid, key, value) ==
    LET r == HashMapInsert(w[mid], key, value)
        old == IF r.old = {} THEN None
               ELSE Some(IntoOwned(w, CHOOSE x \in r.old : TRUE))
        cloned == IF r.old # {} /\ (CHOOSE x \in r.old : TRUE).form = "Borrowed"
                  THEN 1 ELSE 0
    IN  [w |-> [w EXCEPT ![mid] = r.map],
         out |-> [Call(name, mid, key.k, w) EXCEPT !.val = AsRef(w, value),
                                                  !.ret = old, !.copies = cloned]]

insert_owned(w, mid, k, v) ==
    Insert("insert_owned", w, mid, OwnedKey(k), Owned(v))

insert_owned_borrowed_key(w, mid, k, v) ==
    Insert("insert_owned_borrowed_key", w, mid, BorrowedKey(k), Owned(v))

insert_borrowed(w, mid, k, d) ==
    Insert("insert_borrowed", w, mid, BorrowedKey(k), Borrowed(ExtRef(d)))

\* insert_borrowed_owned_key with the bug of storing a clone of the value.
InsertBorrowedOwnedKeyCloned(w, mid, k, d) ==
    Insert("insert_borrowed_owned_key", w, mid, OwnedKey(k), Owned(w.ext[d]))

insert_borrowed_owned_key(w, mid, k, d) ==
    Insert("insert_borrowed_owned_key", w, mid, OwnedKey(k), Borrowed(ExtRef(d)))

\* get(key): self.inner.get(key).map(|v| v.as_ref())
get(w, mid, k) ==
    LET found == HashMapGet(w[mid].inner, k) IN
    IF found = {} THEN None ELSE Some(AsRef(w, (CHOOSE e \in found : TRUE).val))

\* entry_form(key)
entry_form(w, mid, k) ==
    LET found == HashMapGet(w[mid].inner, k) IN
    IF found = {} THEN "None"
    ELSE IF (CHOOSE e \in found : TRUE).val.form = "Borrowed" THEN "Borrowed"
    ELSE "Owned"

\* len()
len(w, mid) == Cardinality(w[mid].inner)

\* is_empty()
is_empty(w, mid) == len(w, mid) = 0

\* capacity(): the values self.inner.capacity() may return.
capacity(w, mid) == IF w[mid].alloc THEN w[mid].cap..Max(w[mid].cap, MaxCap) ELSE {0}

\* keys with the bug of yielding only the keys stored in Owned form.
KeysOwnedOnly(w, mid) == {e.key.k : e \in {x \in w[mid].inner : x.key.form = "Owned"}}

\* keys(): self.inner.keys().map(|k| k.borrow())
keys(w, mid) == {e.key.k : e \in w[mid].inner}

\* SetVal with the bug of overwriting the value of every entry.
SetValAll(w, mid, k, value) ==
    [w EXCEPT ![mid].inner = {[e EXCEPT !.val = value] : e \in w[mid].inner}]

\* Overwrite the value of the entry stored under key content k.
SetVal(w, mid, k, value) ==
    [w EXCEPT ![mid].inner =
        {IF e.key.k = k THEN [e EXCEPT !.val = value] ELSE e : e \in w[mid].inner}]

\* ToMut with the bug of cloning on every call, the value being Owned or not.
ToMutReclone(w, mid, k) ==
    LET e == CHOOSE e \in HashMapGet(w[mid].inner, k) : TRUE IN
    [w |-> SetVal(w, mid, k, Owned(AsRef(w, e.val))),
     ref |-> SlotRef(mid, k), copies |-> 1]

\* ToMut with the bug of handing out the borrowed referent itself instead of a
\* clone of it.
ToMutAlias(w, mid, k) ==
    LET e == CHOOSE e \in HashMapGet(w[mid].inner, k) : TRUE IN
    IF e.val.form = "Borrowed"
    THEN [w |-> w, ref |-> e.val.ref, copies |-> 0]
    ELSE [w |-> w, ref |-> SlotRef(mid, k), copies |-> 0]

\* ToMut with the bug of cloning into a temporary that is never stored back.
ToMutNoStore(w, mid, k) ==
    [w |-> w, ref |-> SlotRef(mid, k), copies |-> 1]

\* Cow::to_mut on the value stored under k: a Borrowed value is replaced by an
\* Owned clone of its referent; the result points at the Owned payload.
ToMut(w, mid, k) ==
    LET e == CHOOSE e \in HashMapGet(w[mid].inner, k) : TRUE IN
    IF e.val.form = "Borrowed"
    THEN [w |-> SetVal(w, mid, k, Owned(ReadPlace(w, e.val.ref))),
          ref |-> SlotRef(mid, k), copies |-> 1]
    ELSE [w |-> w, ref |-> SlotRef(mid, k), copies |-> 0]

\* get_mut with the bug of creating an entry for an absent key (an
\* entry-or-insert) instead of returning None.
GetMutOrInsert(w, mid, k) ==
    IF HashMapGet(w[mid].inner, k) = {}
    THEN [w |-> [w EXCEPT ![mid] = HashMapInsert(w[mid], OwnedKey(k), Owned(1)).map],
          out |-> [Call("get_mut", mid, k, w) EXCEPT !.ret = Some(1),
                                                    !.ref = SlotRef(mid, k)]]
    ELSE LET t == ToMut(w, mid, k) IN
         [w |-> t.w,
          out |-> [Call("get_mut", mid, k, w) EXCEPT !.ret = Some(ReadPlace(t.w, t.ref)),
                                                    !.ref = t.ref, !.copies = t.copies]]

\* get_mut(key): self.inner.get_mut(key).map(|v| v.to_mut())
get_mut(w, mid, k) ==
    IF HashMapGet(w[mid].inner, k) = {}
    THEN [w |-> w, out |-> Call("get_mut", mid, k, w)]
    ELSE LET t == ToMut(w, mid, k) IN
         [w |-> t.w,
          out |-> [Call("get_mut", mid, k, w) EXCEPT !.ret = Some(ReadPlace(t.w, t.ref)),
                                                    !.ref = t.ref, !.copies = t.copies]]

\* The caller's assignment through the &mut that get_mut returned
\* (`*entry = vec![4, 5, 6]`): it lands wherever the reference points.
write(w, r, v) ==
    IF r.kind = "ext" THEN [w EXCEPT !.ext[r.d] = v]
    ELSE SetVal(w, r.kind, r.k, Owned(v))

\* make_owned with the bug of computing the owned copy without assigning it to
\* the slot (`*val = ...` missing).
MakeOwnedNoStore(w, mid, k) ==
    [w |-> w, out |-> [Call("make_owned", mid, k, w) EXCEPT !.ret = get(w, mid, k)]]

\* make_owned(key)
make_owned(w, mid, k) ==
    LET found == HashMapGet(w[mid].inner, k) IN
    IF found = {}
    THEN [w |-> w, out |-> Call("make_owned", mid, k, w)]
    ELSE LET val == (CHOOSE e \in found : TRUE).val
             w2 == IF val.form = "Borrowed"
                   THEN SetVal(w, mid, k, Owned(ReadPlace(w, val.ref)))
                   ELSE w
         IN  [w |-> w2,
              out |-> [Call("make_owned", mid, k, w) EXCEPT
                          !.ret = get(w2, mid, k),
                          !.copies = IF val.form = "Borrowed" THEN 1 ELSE 0]]

\* reserve(additional): afterwards the store has room for `additional` more.
reserve(w, mid, additional) ==
    [w EXCEPT ![mid].cap = Max(w[mid].cap, Cardinality(w[mid].inner) + additional),
              ![mid].alloc = TRUE]

\* shrink_to_fit with the bug of releasing the entries along with the spare room.
ShrinkToFitClear(w, mid) == [w EXCEPT ![mid].inner = {}, ![mid].cap = 0]

\* shrink_to_fit(): the store keeps room for the elements it holds.
shrink_to_fit(w, mid) == [w EXCEPT ![mid].cap = Cardinality(w[mid].inner)]

\* BorrowEntry with the bug of cloning an Owned value instead of borrowing it.
BorrowEntryClone(e) ==
    [key |-> BorrowedKey(e.key.k),
     val |-> IF e.val.form = "Owned" THEN Owned(e.val.val) ELSE Borrowed(e.val.ref)]

\* One arm of borrow_fields' match (k, v): both fields come out Borrowed, an
\* Owned field as a reference to the payload self owns, a Borrowed field as the
\* same reference again.
BorrowEntry(e) ==
    [key |-> BorrowedKey(e.key.k),
     val |-> IF e.val.form = "Owned" THEN Borrowed(SlotRef("hm", e.key.k))
             ELSE Borrowed(e.val.ref)]

\* borrow_fields with the bug of skipping the entries whose value is Borrowed.
BorrowFieldsOwnedOnly(w) ==
    [w EXCEPT !.snap = [live |-> TRUE,
                        inner |-> {[key |-> BorrowedKey(e.key.k),
                                    val |-> Borrowed(SlotRef("hm", e.key.k))] :
                                       e \in {x \in w.hm.inner : x.val.form = "Owned"}},
                        cap |-> Cardinality(w.hm.inner),
                        alloc |-> TRUE]]

\* borrow_fields with the bug of materializing self's Borrowed values on the way.
BorrowFieldsMaterializing(w) ==
    [w EXCEPT !.snap = [live |-> TRUE,
                        inner |-> {[key |-> BorrowedKey(e.key.k),
                                    val |-> IF e.val.form = "Owned"
                                            THEN Borrowed(SlotRef("hm", e.key.k))
                                            ELSE Borrowed(e.val.ref)] : e \in w.hm.inner},
                        cap |-> Cardinality(w.hm.inner),
                        alloc |-> TRUE],
              !.hm.inner = {[e EXCEPT !.val = Owned(IF e.val.form = "Owned" THEN e.val.val
                                                    ELSE w.ext[e.val.ref.d])] :
                               e \in w.hm.inner}]

\* borrow_fields() on hm; the collected map is bound to snap.
borrow_fields(w) ==
    [w EXCEPT !.snap = [live |-> TRUE,
                        inner |-> {BorrowEntry(e) : e \in w.hm.inner},
                        cap |-> Cardinality(w.hm.inner),
                        alloc |-> TRUE]]

\* ---- the state machine ----------------------------------------------------------
\* External data the maps may borrow; two data may hold equal content.
ExtInit == [d \in Refs |-> ((d - 1) % NumVals) + 1]

\* let mut hm = CowHashMap::new();
Init ==
    /\ ext = ExtInit
    /\ hm = new
    /\ snap = NoMap
    /\ op = NoOp

\* &self methods need the map to exist; &mut self methods on hm also need that no
\* map returned by hm.borrow_fields() is still alive (it borrows hm).
Readable(mid) == World[mid].live
Mutable(mid) == World[mid].live /\ (mid = "hm" => ~snap.live)

Apply(r) ==
    /\ ext' = r.w.ext
    /\ hm' = r.w.hm
    /\ snap' = r.w.snap
    /\ op' = r.out

\* hm = CowHashMap::new();
New ==
    /\ ~snap.live
    /\ hm' = new
    /\ op' = [NoOp EXCEPT !.name = "new", !.map = "hm"]
    /\ UNCHANGED <<ext, snap>>

\* hm = CowHashMap::with_capacity(n);
WithCapacity(n) ==
    /\ ~snap.live
    /\ hm' = with_capacity(n)
    /\ op' = [NoOp EXCEPT !.name = "with_capacity", !.map = "hm", !.num = n]
    /\ UNCHANGED <<ext, snap>>

InsertOwned(mid, k, v) ==
    /\ Mutable(mid)
    /\ Apply(insert_owned(World, mid, k, v))

InsertOwnedBorrowedKey(mid, k, v) ==
    /\ Mutable(mid)
    /\ Apply(insert_owned_borrowed_key(World, mid, k, v))

InsertBorrowed(mid, k, d) ==
    /\ Mutable(mid)
    /\ Apply(insert_borrowed(World, mid, k, d))

InsertBorrowedOwnedKey(mid, k, d) ==
    /\ Mutable(mid)
    /\ Apply(insert_borrowed_owned_key(World, mid, k, d))

Get(mid, k) ==
    /\ Readable(mid)
    /\ op' = [Call("get", mid, k, World) EXCEPT !.ret = get(World, mid, k)]
    /\ UNCHANGED <<ext, hm, snap>>

GetMut(mid, k) ==
    /\ Mutable(mid)
    /\ Apply(get_mut(World, mid, k))

\* The &mut returned by the call just made is still held: assign through it.
Write(v) ==
    /\ op.name \in {"get_mut", "write"}
    /\ op.ref # NoRef
    /\ Apply([w |-> write(World, op.ref, v),
              out |-> [op EXCEPT !.name = "write", !.val = v, !.copies = 0]])

MakeOwned(mid, k) ==
    /\ Mutable(mid)
    /\ Apply(make_owned(World, mid, k))

EntryForm(mid, k) ==
    /\ Readable(mid)
    /\ op' = [Call("entry_form", mid, k, World) EXCEPT !.form = entry_form(World, mid, k)]
    /\ UNCHANGED <<ext, hm, snap>>

KeysCall(mid) ==
    /\ Readable(mid)
    /\ op' = [NoOp EXCEPT !.name = "keys", !.map = mid, !.keyset = keys(World, mid)]
    /\ UNCHANGED <<ext, hm, snap>>

LenCall(mid) ==
    /\ Readable(mid)
    /\ op' = [NoOp EXCEPT !.name = "len", !.map = mid, !.num = len(World, mid)]
    /\ UNCHANGED <<ext, hm, snap>>

IsEmpty(mid) ==
    /\ Readable(mid)
    /\ op' = [NoOp EXCEPT !.name = "is_empty", !.map = mid,
                          !.num = IF is_empty(World, mid) THEN 1 ELSE 0]
    /\ UNCHANGED <<ext, hm, snap>>

Capacity(mid) ==
    /\ Readable(mid)
    /\ \E c \in capacity(World, mid) :
          op' = [NoOp EXCEPT !.name = "capacity", !.map = mid, !.num = c]
    /\ UNCHANGED <<ext, hm, snap>>

Reserve(mid, additional) ==
    /\ Mutable(mid)
    /\ Cardinality(World[mid].inner) + additional <= MaxCap
    /\ Apply([w |-> reserve(World, mid, additional),
              out |-> [NoOp EXCEPT !.name = "reserve", !.map = mid, !.num = additional]])

ShrinkToFit(mid) ==
    /\ Mutable(mid)
    /\ Apply([w |-> shrink_to_fit(World, mid),
              out |-> [NoOp EXCEPT !.name = "shrink_to_fit", !.map = mid]])

\* let snap = hm.borrow_fields();
BorrowFields ==
    /\ hm.live /\ ~snap.live
    /\ Apply([w |-> borrow_fields(World),
              out |-> [NoOp EXCEPT !.name = "borrow_fields", !.map = "hm"]])

\* snap goes out of scope, which ends its borrow of hm.
DropSnap ==
    /\ snap.live
    /\ snap' = NoMap
    /\ op' = [NoOp EXCEPT !.name = "drop", !.map = "snap"]
    /\ UNCHANGED <<ext, hm>>

\* The operations on the entries: hm is inserted into, read and materialized;
\* a map returned by borrow_fields is read.
Core ==
    \/ \E k \in Keys, v \in Vals : InsertOwned("hm", k, v)
    \/ \E k \in Keys, v \in Vals : InsertOwnedBorrowedKey("hm", k, v)
    \/ \E k \in Keys, d \in Refs : InsertBorrowed("hm", k, d)
    \/ \E k \in Keys, d \in Refs : InsertBorrowedOwnedKey("hm", k, d)
    \/ \E mid \in MapIds, k \in Keys : Get(mid, k)
    \/ \E k \in Keys : GetMut("hm", k)
    \/ \E v \in Vals : Write(v)
    \/ \E k \in Keys : MakeOwned("hm", k)
    \/ \E mid \in MapIds, k \in Keys : EntryForm(mid, k)
    \/ BorrowFields
    \/ DropSnap

\* Every operation, with the returned map bound immutably
\* (`let snap = hm.borrow_fields();`).
Next ==
    \/ Core
    \/ New
    \/ \E n \in 0..MaxCap : WithCapacity(n)
    \/ \E mid \in MapIds : KeysCall(mid)
    \/ \E mid \in MapIds : LenCall(mid)
    \/ \E mid \in MapIds : IsEmpty(mid)
    \/ \E mid \in MapIds : Capacity(mid)
    \/ \E n \in 0..MaxCap : Reserve("hm", n)
    \/ ShrinkToFit("hm")

Spec == Init /\ [][Next]_vars

\* The operations on the entries with the returned map bound mutably
\* (`let mut snap = hm.borrow_fields();`): snap is inserted into and
\* materialized while hm stays borrowed.
NextMut ==
    \/ Core
    \/ \E k \in Keys, v \in Vals : InsertOwned("snap", k, v)
    \/ \E k \in Keys, v \in Vals : InsertOwnedBorrowedKey("snap", k, v)
    \/ \E k \in Keys, d \in Refs : InsertBorrowed("snap", k, d)
    \/ \E k \in Keys, d \in Refs : InsertBorrowedOwnedKey("snap", k, d)
    \/ \E k \in Keys : GetMut("snap", k)
    \/ \E k \in Keys : MakeOwned("snap", k)

SpecMut == Init /\ [][NextMut]_vars

\* ---- properties --------------------------------------------------------------
InsertNames == {"insert_owned", "insert_owned_borrowed_key",
                "insert_borrowed", "insert_borrowed_owned_key"}
BorrowingInserts == {"insert_borrowed", "insert_borrowed_owned_key"}
OwningInserts == {"insert_owned", "insert_owned_borrowed_key"}

\* The form in which the key with content k is stored.
key_form(w, mid, k) ==
    LET found == HashMapGet(w[mid].inner, k) IN
    IF found = {} THEN "None" ELSE (CHOOSE e \in found : TRUE).key.form

\* The external datum the entry under k borrows its value from (0: none).
BorrowedFrom(w, mid, k) ==
    LET found == HashMapGet(w[mid].inner, k) IN
    IF found = {} THEN 0 ELSE (CHOOSE e \in found : TRUE).val.ref.d

\* C1: get_mut and the writes made through the reference it returns never reach
\* the borrowed source: the external data keep their content, every other entry
\* of this map and every entry of the other map reads what it read before, and
\* the written content is seen by get(k) of the written map only.
C1_WriteNeverReachesSource ==
    [][op'.name \in {"get_mut", "write"} =>
         /\ ext' = ext
         /\ \A mid \in MapIds, k \in Keys :
               (mid # op'.map \/ k # op'.key) =>
                   /\ get(World', mid, k) = get(World, mid, k)
                   /\ entry_form(World', mid, k) = entry_form(World, mid, k)
         /\ op'.name = "write" => get(World', op'.map, op'.key) = Some(op'.val)]_vars

\* A write through snap.get_mut(k) of an entry that was Borrowed, while hm's entry
\* under the same key and another entry of snap borrow from the same external
\* datum: the new content differs from what those still read.
C1_Witness ==
    /\ op.name = "write" /\ op.map = "snap" /\ op.pform = "Borrowed"
    /\ entry_form(World, "hm", op.key) = "Borrowed"
    /\ get(World, "snap", op.key) = Some(op.val)
    /\ get(World, "hm", op.key) # Some(op.val)
    /\ \E j \in Keys \ {op.key} :
          /\ entry_form(World, "snap", j) = "Borrowed"
          /\ BorrowedFrom(World, "snap", j) = BorrowedFrom(World, "hm", op.key)
          /\ get(World, "snap", j) = get(World, "hm", op.key)

\* C2: after get_mut(k) on a present key the entry is Owned whatever it was
\* before, and an Owned entry stays Owned, with the same content, under further
\* get_mut, make_owned, get and entry_form calls on the map.
C2_GetMutMakesOwned ==
    [][/\ (op'.name = "get_mut" /\ op'.pform # "None") =>
              entry_form(World', op'.map, op'.key) = "Owned"
       /\ \A k \in Keys :
              (/\ op'.name \in {"get_mut", "make_owned", "get", "entry_form"}
               /\ entry_form(World, op'.map, k) = "Owned") =>
                  /\ entry_form(World', op'.map, k) = "Owned"
                  /\ get(World', op'.map, k) = get(World, op'.map, k)]_vars

C2_Witness ==
    /\ op.name = "get_mut" /\ op.pform = "Borrowed"
    /\ entry_form(World, op.map, op.key) = "Owned"

\* C3: after any of the four inserts of a value with content v under k, get(k)
\* returns v, whether k was absent or present and whatever form the previous
\* entry had.
C3_InsertThenGet ==
    [][op'.name \in InsertNames =>
         get(World', op'.map, op'.key) = Some(op'.val)]_vars

C3_Witness ==
    /\ op.name \in InsertNames /\ op.ret.some /\ op.ret.val # op.val
    /\ get(World, op.map, op.key) = Some(op.val)

\* C4: each insert returns None when the key was absent and otherwise
\* Some(content get(k) returned just before the call), also when the stored
\* entry was Borrowed.
C4_InsertReturnsPrevious ==
    [][op'.name \in InsertNames =>
         op'.ret = get(World, op'.map, op'.key)]_vars

C4_Witness ==
    /\ op.name \in InsertNames /\ op.pform = "Borrowed"
    /\ op.ret.some /\ op.ret.val # op.val

\* C5 as stated: once the entry under k is Owned, no operation on the same map
\* makes it Borrowed again.
C5_OwnedNeverBorrowedAgain ==
    [][\A k \in Keys :
          (entry_form(World, "hm", k) = "Owned" /\ op'.name # "new"
                                                /\ op'.name # "with_capacity") =>
              entry_form(World', "hm", k) = "Owned"]_vars

\* C5, amended: an Owned entry under k stays Owned under every operation on its
\* map except insert_borrowed(k, ..) and insert_borrowed_owned_key(k, ..), which
\* replace it by the Borrowed value they are given; any other change of a
\* present entry's form is Borrowed -> Owned.
C5_OwnedUntilBorrowingInsert ==
    [][\A k \in Keys :
          (/\ entry_form(World, "hm", k) # "None"
           /\ op'.name \notin {"new", "with_capacity"}
           /\ ~(op'.name \in BorrowingInserts /\ op'.map = "hm" /\ op'.key = k)) =>
              \/ entry_form(World', "hm", k) = entry_form(World, "hm", k)
              \/ /\ entry_form(World, "hm", k) = "Borrowed"
                 /\ entry_form(World', "hm", k) = "Owned"]_vars

\* borrow_fields on a map with an Owned entry: the entry is still Owned in hm
\* and Borrowed in the new map.
C5_Witness ==
    /\ op.name = "borrow_fields"
    /\ \E k \in Keys : /\ entry_form(World, "hm", k) = "Owned"
                       /\ entry_form(World, "snap", k) = "Borrowed"

\* C6: make_owned(k) on a present key returns the content get(k) had before the
\* call, leaves the entry Owned with that content, and a call right after
\* another returns the same content again.
C6_MakeOwnedIdempotent ==
    [][(op'.name = "make_owned" /\ op'.pform # "None") =>
          /\ op'.ret = get(World, op'.map, op'.key)
          /\ get(World', op'.map, op'.key) = get(World, op'.map, op'.key)
          /\ entry_form(World', op'.map, op'.key) = "Owned"
          /\ (op.name = "make_owned" /\ op.map = op'.map /\ op.key = op'.key) =>
                 /\ op'.ret = op.ret
                 /\ op'.pform = "Owned"
                 /\ hm' = hm]_vars

C6_Witness ==
    /\ op.name = "make_owned" /\ op.pform = "Borrowed" /\ op.ret.some
    /\ entry_form(World, op.map, op.key) = "Owned"

\* C7: the map borrow_fields returns has the length of its source and get
\* returns the same on both for every key.
C7_BorrowFieldsReadEquivalent ==
    [][op'.name = "borrow_fields" =>
          /\ len(World', "snap") = len(World, "hm")
          /\ keys(World', "snap") = keys(World, "hm")
          /\ \A k \in Keys : get(World', "snap", k) = get(World, "hm", k)]_vars

\* A snapshot of a map holding an Owned key with a Borrowed value and a Borrowed
\* key with an Owned value.
C7_Witness ==
    /\ op.name = "borrow_fields"
    /\ \E j, k \in Keys :
          /\ key_form(World, "hm", j) = "Owned" /\ entry_form(World, "hm", j) = "Borrowed"
          /\ key_form(World, "hm", k) = "Borrowed" /\ entry_form(World, "hm", k) = "Owned"
          /\ get(World, "snap", j) = get(World, "hm", j)
          /\ get(World, "snap", k) = get(World, "hm", k)

\* C8: every entry of the map borrow_fields returns has a Borrowed value and a
\* Borrowed key, whatever forms the source held.
C8_BorrowFieldsAllBorrowed ==
    [][op'.name = "borrow_fields" =>
          \A k \in keys(World, "hm") :
              /\ entry_form(World', "snap", k) = "Borrowed"
              /\ key_form(World', "snap", k) = "Borrowed"]_vars

C8_Witness ==
    /\ op.name = "borrow_fields"
    /\ \E k \in Keys :
          /\ key_form(World, "hm", k) = "Owned" /\ entry_form(World, "hm", k) = "Owned"
          /\ key_form(World, "snap", k) = "Borrowed"
          /\ entry_form(World, "snap", k) = "Borrowed"

\* C9: borrow_fields leaves its source as it was: same entries, same key and
\* value forms, same contents, and the external data untouched.
C9_BorrowFieldsKeepsSource ==
    [][op'.name = "borrow_fields" =>
          /\ hm' = hm
          /\ ext' = ext
          /\ len(World', "hm") = len(World, "hm")
          /\ keys(World', "hm") = keys(World, "hm")
          /\ \A k \in Keys :
                /\ get(World', "hm", k) = get(World, "hm", k)
                /\ entry_form(World', "hm", k) = entry_form(World, "hm", k)
                /\ key_form(World', "hm", k) = key_form(World, "hm", k)]_vars

C9_Witness ==
    /\ op.name = "borrow_fields"
    /\ \E j, k \in Keys : /\ entry_form(World, "hm", j) = "Borrowed"
                          /\ entry_form(World, "hm", k) = "Owned"

\* C10: right after an insert the entry has the form the variant asks for:
\* Borrowed after insert_borrowed and insert_borrowed_owned_key, Owned after
\* insert_owned and insert_owned_borrowed_key, whatever was stored before.
C10_InsertSetsRequestedForm ==
    [][/\ op'.name \in BorrowingInserts =>
              entry_form(World', op'.map, op'.key) = "Borrowed"
       /\ op'.name \in OwningInserts =>
              entry_form(World', op'.map, op'.key) = "Owned"]_vars

C10_Witness ==
    /\ op.name \in BorrowingInserts /\ op.pform = "Owned"
    /\ entry_form(World, op.map, op.key) = "Borrowed"

\* The entries of a map stored under key content k, whatever the key's form.
Slots(w, mid, k) == {e \in w[mid].inner : e.key.k = k}

\* C11: keys of equal content address one slot whatever form they are stored or
\* passed in: every map holds at most one slot per key content, and an insert
\* under a content already stored (in either key form) returns Some(previous)
\* and leaves len unchanged.
C11_EqualKeysOneSlot ==
    [][/\ \A mid \in MapIds, k \in Keys : Cardinality(Slots(World', mid, k)) <= 1
       /\ (op'.name \in InsertNames /\ Slots(World, op'.map, op'.key) # {}) =>
              /\ op'.ret.some
              /\ len(World', op'.map) = len(World, op'.map)]_vars

\* An insert with an owned key onto a slot whose stored key is Borrowed.
C11_Witness ==
    /\ op.name \in {"insert_owned", "insert_borrowed_owned_key"}
    /\ op.ret.some
    /\ key_form(World, op.map, op.key) = "Borrowed"
    /\ Cardinality(Slots(World, op.map, op.key)) = 1

\* C12: get, get_mut, make_owned and entry_form of a key that is not in the map
\* return None and leave the map (len, keys, values, forms) and everything else
\* as it was.
C12_AbsentKeyLookup ==
    [][(/\ op'.name \in {"get", "get_mut", "make_owned", "entry_form"}
        /\ Slots(World, op'.map, op'.key) = {}) =>
           /\ op'.ret = None /\ op'.form = "None" /\ op'.ref = NoRef
           /\ hm' = hm /\ snap' = snap /\ ext' = ext
           /\ len(World', op'.map) = len(World, op'.map)
           /\ keys(World', op'.map) = keys(World, op'.map)
           /\ \A k \in Keys : /\ get(World', op'.map, k) = get(World, op'.map, k)
                              /\ entry_form(World', op'.map, k) =
                                     entry_form(World, op'.map, k)]_vars

\* A mutable lookup of an absent key in a map that holds another entry.
C12_Witness ==
    /\ op.name \in {"get_mut", "make_owned"} /\ op.pform = "None"
    /\ op.ret = None
    /\ Slots(World, op.map, op.key) = {}
    /\ len(World, op.map) = 1

\* C13: keys() yields exactly the keys k with get(k) # None, equivalently
\* entry_form(k) # None, each once (as many as len()), whatever form each key is
\* stored in; a second call yields the same and no call changes anything.
C13_KeysAreLiveEntries ==
    [][/\ \A mid \in MapIds :
             /\ keys(World', mid) = {k \in Keys : get(World', mid, k) # None}
             /\ keys(World', mid) = {k \in Keys : entry_form(World', mid, k) # "None"}
             /\ Cardinality(keys(World', mid)) = len(World', mid)
       /\ op'.name = "keys" =>
             /\ op'.keyset = {k \in Keys : get(World, op'.map, k) # None}
             /\ Cardinality(op'.keyset) = len(World, op'.map)
             /\ hm' = hm /\ snap' = snap /\ ext' = ext
             /\ (op.name = "keys" /\ op.map = op'.map) => op'.keyset = op.keyset]_vars

\* keys() on a map holding one key in Borrowed and one in Owned form.
C13_Witness ==
    /\ op.name = "keys" /\ op.map = "hm"
    /\ op.keyset = Keys
    /\ \E j, k \in Keys : /\ key_form(World, "hm", j) = "Borrowed"
                          /\ key_form(World, "hm", k) = "Owned"

\* C14: new() yields a map with len() = 0, is_empty() and capacity() = 0;
\* with_capacity(n) yields a map with len() = 0 and capacity() >= n; a
\* capacity() call right after the constructor reports just that.
C14_Constructors ==
    [][/\ op'.name = "new" =>
             /\ len(World', "hm") = 0 /\ is_empty(World', "hm")
             /\ capacity(World', "hm") = {0}
       /\ op'.name = "with_capacity" =>
             /\ len(World', "hm") = 0 /\ is_empty(World', "hm")
             /\ \A c \in capacity(World', "hm") : c >= op'.num
       /\ (op'.name = "capacity" /\ op'.map = "hm") =>
             /\ op.name \in {"init", "new"} => op'.num = 0
             /\ op.name = "with_capacity" => op'.num >= op.num]_vars

\* capacity() right after with_capacity(n) with n > 0.
C14_Witness ==
    /\ op.name = "capacity" /\ op.map = "hm" /\ op.num > 0
    /\ hm = with_capacity(op.num)

\* The slots that hold an Owned value, over both maps.
OwnedSlots(w) == {s \in MapIds \X Keys : entry_form(w, s[1], s[2]) = "Owned"}

\* C15: get_mut(k) and make_owned(k) make exactly one deep copy when the entry at
\* k is Borrowed at call time and none when it is Owned, and leave the entry
\* Owned; an Owned entry stays Owned until an insert at k (or the end of its
\* map), so a run of get_mut/make_owned on k without an insert at k copies at
\* most once; get, entry_form, keys, len and borrow_fields copy nothing.
C15_CloneAtMostOnce ==
    [][/\ op'.name \in {"get_mut", "make_owned"} =>
             /\ op'.copies = IF entry_form(World, op'.map, op'.key) = "Borrowed"
                             THEN 1 ELSE 0
             /\ Cardinality(OwnedSlots(World')) =
                   Cardinality(OwnedSlots(World)) + op'.copies
             /\ entry_form(World, op'.map, op'.key) # "None" =>
                   entry_form(World', op'.map, op'.key) = "Owned"
             /\ (/\ op.name \in {"get_mut", "make_owned", "write"}
                 /\ op.map = op'.map /\ op.key = op'.key) => op'.copies = 0
       /\ \A s \in OwnedSlots(World) :
             (/\ ~(op'.name \in InsertNames /\ op'.map = s[1] /\ op'.key = s[2])
              /\ op'.name \notin {"new", "with_capacity", "drop"})
             => s \in OwnedSlots(World')
       /\ op'.name \in {"get", "entry_form", "keys", "len", "borrow_fields"} =>
             /\ op'.copies = 0
             /\ OwnedSlots(World') = OwnedSlots(World)]_vars

\* get_mut(k) has cloned a Borrowed entry, and a make_owned(k) now copies nothing.
C15_Witness ==
    /\ op.name = "get_mut" /\ op.map = "hm"
    /\ op.pform = "Borrowed" /\ op.copies = 1
    /\ entry_form(World, "hm", op.key) = "Owned"
    /\ make_owned(World, "hm", op.key).out.copies = 0

\* The keys as stored (form and content) in the slots under key content k.
StoredKeys(w, mid, k) == {e.key : e \in Slots(w, mid, k)}

\* C16: an insert (any variant) with a key equal to one already in the map leaves
\* the stored key as it was first inserted, form included, and overwrites only
\* the value and the value form; the other slots keep key and value.
C16_ReplaceKeepsStoredKey ==
    [][(op'.name \in InsertNames /\ Slots(World, op'.map, op'.key) # {}) =>
          /\ StoredKeys(World', op'.map, op'.key) = StoredKeys(World, op'.map, op'.key)
          /\ key_form(World', op'.map, op'.key) = key_form(World, op'.map, op'.key)
          /\ get(World', op'.map, op'.key) = Some(op'.val)
          /\ entry_form(World', op'.map, op'.key) =
                IF op'.name \in BorrowingInserts THEN "Borrowed" ELSE "Owned"
          /\ \A j \in Keys \ {op'.key} :
                Slots(World', op'.map, j) = Slots(World, op'.map, j)]_vars

\* insert_owned(k', ..) onto the slot that insert_borrowed(k, ..) created: the
\* key is still stored Borrowed, the value is Owned.
C16_Witness ==
    /\ op.name = "insert_owned" /\ op.map = "hm" /\ op.pform = "Borrowed"
    /\ StoredKeys(World, "hm", op.key) = {BorrowedKey(op.key)}
    /\ entry_form(World, "hm", op.key) = "Owned"

\* The steps that end a map (hm is rebound to a fresh map, snap goes out of
\* scope) rather than operate on it.
EndsMap(name, mid) ==
    \/ mid = "hm" /\ name \in {"new", "with_capacity"}
    \/ mid = "snap" /\ name = "drop"

\* C17: len() is the number of distinct keys; an insert of an absent key raises
\* it by exactly 1, an insert of a present key and every other operation leave
\* it unchanged, so it never decreases and an entry once present stays present;
\* is_empty() is len() = 0 in every state.
C17_LenCountsKeys ==
    [][/\ \A mid \in MapIds :
             /\ len(World', mid) = Cardinality(keys(World', mid))
             /\ is_empty(World', mid) <=> (len(World', mid) = 0)
             /\ ~EndsMap(op'.name, mid) =>
                   /\ len(World', mid) >= len(World, mid)
                   /\ keys(World, mid) \subseteq keys(World', mid)
                   /\ (World[mid].live /\ ~(op'.name \in InsertNames /\ op'.map = mid))
                         => len(World', mid) = len(World, mid)
       /\ op'.name \in InsertNames =>
             len(World', op'.map) = len(World, op'.map) +
                 (IF op'.key \in keys(World, op'.map) THEN 0 ELSE 1)
       /\ op'.name = "is_empty" =>
             (op'.num = 1) <=> (len(World, op'.map) = 0)
       /\ op'.name = "len" => op'.num = Cardinality(keys(World, op'.map))]_vars

\* shrink_to_fit() on a map that holds every key.
C17_Witness ==
    /\ op.name = "shrink_to_fit" /\ op.map = "hm"
    /\ len(World, "hm") = Cardinality(Keys)
    /\ ~is_empty(World, "hm")

\* C18: get_mut(k) (before anything is written through its result) and
\* make_owned(k) leave get(k) as it was, leave every other slot (key form,
\* value, value form) as it was, and leave the key set and len as they were;
\* the reference get_mut(k) returns holds the content get(k) had.
C18_MaterializeIsLocal ==
    [][op'.name \in {"get_mut", "make_owned"} =>
          /\ get(World', op'.map, op'.key) = get(World, op'.map, op'.key)
          /\ \A j \in Keys \ {op'.key} :
                /\ Slots(World', op'.map, j) = Slots(World, op'.map, j)
                /\ get(World', op'.map, j) = get(World, op'.map, j)
                /\ entry_form(World', op'.map, j) = entry_form(World, op'.map, j)
                /\ key_form(World', op'.map, j) = key_form(World, op'.map, j)
          /\ keys(World', op'.map) = keys(World, op'.map)
          /\ len(World', op'.map) = len(World, op'.map)
          /\ op'.ret = get(World, op'.map, op'.key)
          /\ (op'.name = "get_mut" /\ op'.ref # NoRef) =>
                Some(ReadPlace(World', op'.ref)) = get(World, op'.map, op'.key)]_vars

\* A Borrowed entry has been materialized next to an entry of other content.
C18_Witness ==
    /\ op.name \in {"get_mut", "make_owned"} /\ op.map = "hm"
    /\ op.pform = "Borrowed" /\ op.copies = 1
    /\ \E j \in Keys \ {op.key} :
          /\ get(World, "hm", j) # None
          /\ get(World, "hm", j) # get(World, "hm", op.key)

\* C19: while a map returned by hm.borrow_fields() is alive, nothing done to it
\* (inserts, get_mut and writes through its result, make_owned) changes hm:
\* hm's get(k), entry_form(k), key set and len stay as they were when the
\* snapshot was taken, and a write through snap.get_mut(k) lands in snap's own
\* copy.
C19_SnapshotMutationKeepsSource ==
    [][/\ (snap.live /\ snap'.live) =>
             /\ \A k \in Keys :
                   /\ get(World', "hm", k) = get(World, "hm", k)
                   /\ entry_form(World', "hm", k) = entry_form(World, "hm", k)
             /\ keys(World', "hm") = keys(World, "hm")
             /\ len(World', "hm") = len(World, "hm")
       /\ (/\ op'.map = "snap"
           /\ op'.name \in InsertNames \cup {"get_mut", "write", "make_owned"}) =>
             /\ hm' = hm
             /\ op'.name = "write" => get(World', "snap", op'.key) = Some(op'.val)]_vars

\* snap has gained a key of its own and a value written over data that hm owns;
\* hm still reads its own content.
C19_Witness ==
    /\ op.name = "write" /\ op.map = "snap"
    /\ entry_form(World, "hm", op.key) = "Owned"
    /\ get(World, "snap", op.key) = Some(op.val)
    /\ get(World, "hm", op.key) # Some(op.val)
    /\ len(World, "snap") > len(World, "hm")

====
